---- MODULE Spec2Model ----
(***************************************************************************)
(* Model of distaff's execution orchestrator, processor::execute           *)
(* (src/src/processor/mod.rs).  Two invocations of execute are modelled    *)
(* (run 1, then run 2 on the same program and output count but a freely    *)
(* chosen input tape) so that the input-independence of the program hash   *)
(* and the determinism of execute can be stated over one state.            *)
(*                                                                         *)
(* TraceTable, prove and the opcode table live outside processor/mod.rs;   *)
(* they are modelled from the specification (sections 3, 4.1, 4.3).        *)
(***************************************************************************)
EXTENDS Integers, Sequences, FiniteSets, TLC

\* ---- bounds of the model ------------------------------------------------
MaxProgLen == 3
MaxInputs == 1
MaxOutputs == 2
MaxMillis == 1

InputValues == {0, 1}
Runs == {1, 2}

\* ---- program constants --------------------------------------------------
DEFAULT_EXTENSION_FACTOR == 32

\* opcode table (processor::opcodes) and field, modelled from the spec
NOOP == 0
PUSH == 1
ADD == 2
Opcodes == {NOOP, PUSH, ADD}
PushConst == 1
FieldModulus == 5
OpAccWidth == 5
HashWidth == 4

VARIABLES
    pc,            \* position of each invocation inside execute
    program,       \* argument: program (unpadded)
    inputs,        \* argument: input tape
    num_outputs,   \* argument: requested output count
    padded,        \* local `program` after to_vec / resize
    trace_length,  \* local trace_length
    trace,         \* local trace (TraceTable)
    t,             \* local t: elapsed milliseconds
    printed,       \* lines written to stdout by println!
    last_state,    \* local last_state
    outputs,       \* local outputs
    program_hash,  \* local program_hash
    prove_calls,   \* number of times prove was entered
    proof,         \* proof artifact produced by prove (side output)
    result         \* value returned to the caller, <<>> while none

vars == <<pc, program, inputs, num_outputs, padded, trace_length, trace, t,
          printed,
          last_state, outputs, program_hash, prove_calls, proof, result>>

\* ---- sequences ----------------------------------------------------------
SeqsUpTo(S, n) == UNION {[1..k -> S] : k \in 0..n}

RECURSIVE Repeat(_, _)
Repeat(v, n) == IF n <= 0 THEN <<>> ELSE <<v>> \o Repeat(v, n - 1)

\* ---- padding (execute, lines 11-18) -------------------------------------
RECURSIVE PowerOfTwoFrom(_, _)
PowerOfTwoFrom(p, n) == IF p >= n THEN p ELSE PowerOfTwoFrom(2 * p, n)

\* usize::next_power_of_two: smallest power of two >= n (1 for n = 0)
NextPowerOfTwo(n) == PowerOfTwoFrom(1, n)

\* faulty variant: comparison inverted
TraceLengthInverted(len) ==
    IF len # NextPowerOfTwo(len) THEN NextPowerOfTwo(len) * 2
    ELSE NextPowerOfTwo(len)

\* faulty variant: a power-of-two length is not doubled
TraceLengthNoDouble(len) == NextPowerOfTwo(len)

\* faulty variant: a power-of-two length is quadrupled
TraceLengthQuadruple(len) ==
    IF len = NextPowerOfTwo(len) THEN NextPowerOfTwo(len) * 4
    ELSE NextPowerOfTwo(len)

TraceLength(len) ==
    IF len = NextPowerOfTwo(len) THEN NextPowerOfTwo(len) * 2
    ELSE NextPowerOfTwo(len)

\* faulty variant: the fill is put in front
ResizeFront(v, newLen, value) ==
    IF newLen <= Len(v) THEN SubSeq(v, 1, newLen)
    ELSE Repeat(value, newLen - Len(v)) \o v

\* Vec::resize
Resize(v, newLen, value) ==
    IF newLen <= Len(v) THEN SubSeq(v, 1, newLen)
    ELSE v \o Repeat(value, newLen - Len(v))

\* ---- Instruction Effects and Trace Table (from the specification) -------
NoState == [stack |-> <<>>, op_acc |-> <<>>]
NoTrace == [states |-> <<>>, extension_factor |-> 0]

InitialState(ins) == [stack |-> ins, op_acc |-> Repeat(0, OpAccWidth)]

CanStep(s, op) == op = ADD => Len(s.stack) >= 2

AccStep(acc, op) ==
    <<(2 * acc[1] + acc[OpAccWidth] + op) % FieldModulus>>
        \o SubSeq(acc, 1, OpAccWidth - 1)

StackStep(st, op) ==
    IF op = PUSH THEN <<PushConst>> \o st
    ELSE IF op = ADD THEN <<(st[1] + st[2]) % FieldModulus>> \o Tail(Tail(st))
    ELSE st

\* step(state, opcode): the no-op leaves the whole state unchanged
Step(s, op) ==
    IF op = NOOP THEN s
    ELSE [stack |-> StackStep(s.stack, op), op_acc |-> AccStep(s.op_acc, op)]

RECURSIVE BuildStates(_, _, _)
BuildStates(prog, i, acc) ==
    IF i >= Len(prog) THEN acc
    ELSE IF ~CanStep(acc[Len(acc)], prog[i]) THEN acc
    ELSE BuildStates(prog, i + 1, Append(acc, Step(acc[Len(acc)], prog[i])))

\* raw states of the trace: states[1] seeded with the inputs,
\* states[i+1] = Step(states[i], prog[i])
TraceStates(prog, ins) == BuildStates(prog, 1, <<InitialState(ins)>>)

\* the input tape is compatible with the program
TraceOK(prog, ins) == Len(TraceStates(prog, ins)) = Len(prog)

TraceTableNew(prog, ins, ext) ==
    [states |-> TraceStates(prog, ins), extension_factor |-> ext]

TraceLen(tr) == Len(tr.states)

\* get_state(step), step counted from 0
GetState(tr, step) == tr.states[step + 1]

GetStack(s) == s.stack
GetOpAcc(s) == s.op_acc

RECURSIVE Digest(_)
Digest(xs) ==
    IF xs = <<>> THEN 0 ELSE (3 * Digest(Tail(xs)) + Head(xs) + 1) % FieldModulus

\* one committed leaf per trace row
RowDigests(ss) == [i \in 1..Len(ss) |-> Digest(ss[i].stack \o ss[i].op_acc)]

\* prove(trace, inputs, outputs): commitment root, declared outputs and
\* program hash packaged into the artifact
ProofArtifact(tr, ins, outs) ==
    [root |-> Digest(RowDigests(tr.states) \o ins),
     domain |-> TraceLen(tr) * tr.extension_factor,
     outputs |-> outs,
     program_hash |-> SubSeq(GetOpAcc(GetState(tr, TraceLen(tr) - 1)), 1, HashWidth)]

\* ---- state machine ------------------------------------------------------
Terminal == {"done", "panic_input", "panic_bounds", "aborted"}

Init ==
    /\ pc = [r \in Runs |-> "idle"]
    /\ program = [r \in Runs |-> <<>>]
    /\ inputs = [r \in Runs |-> <<>>]
    /\ num_outputs = [r \in Runs |-> 0]
    /\ padded = [r \in Runs |-> <<>>]
    /\ trace_length = [r \in Runs |-> 0]
    /\ trace = [r \in Runs |-> NoTrace]
    /\ t = [r \in Runs |-> 0]
    /\ printed = [r \in Runs |-> <<>>]
    /\ last_state = [r \in Runs |-> NoState]
    /\ outputs = [r \in Runs |-> <<>>]
    /\ program_hash = [r \in Runs |-> <<>>]
    /\ prove_calls = [r \in Runs |-> 0]
    /\ proof = [r \in Runs |-> <<>>]
    /\ result = [r \in Runs |-> <<>>]

\* the frame of execute goes away: every local is dropped
DropLocals(r) ==
    /\ padded' = [padded EXCEPT ![r] = <<>>]
    /\ trace_length' = [trace_length EXCEPT ![r] = 0]
    /\ trace' = [trace EXCEPT ![r] = NoTrace]
    /\ t' = [t EXCEPT ![r] = 0]
    /\ last_state' = [last_state EXCEPT ![r] = NoState]
    /\ outputs' = [outputs EXCEPT ![r] = <<>>]
    /\ program_hash' = [program_hash EXCEPT ![r] = <<>>]

\* execute(program, inputs, num_outputs) is entered (line 8)
Call(r) ==
    /\ pc[r] = "idle"
    /\ \/ /\ r = 1
          /\ \E P \in SeqsUpTo(Opcodes, MaxProgLen), n \in 0..MaxOutputs :
                /\ program' = [program EXCEPT ![r] = P]
                /\ num_outputs' = [num_outputs EXCEPT ![r] = n]
       \/ /\ r = 2
          /\ pc[1] \in Terminal
          /\ program' = [program EXCEPT ![r] = program[1]]
          /\ num_outputs' = [num_outputs EXCEPT ![r] = num_outputs[1]]
    /\ \E I \in SeqsUpTo(InputValues, MaxInputs) :
          inputs' = [inputs EXCEPT ![r] = I]
    /\ pc' = [pc EXCEPT ![r] = "pad"]
    /\ UNCHANGED <<printed, padded, trace_length, trace, t, last_state, outputs,
                   program_hash, prove_calls, proof, result>>

\* lines 11-18
Pad(r) ==
    /\ pc[r] = "pad"
    /\ trace_length' = [trace_length EXCEPT ![r] = TraceLength(Len(program[r]))]
    /\ padded' = [padded EXCEPT ![r] =
                     Resize(program[r], TraceLength(Len(program[r])), NOOP)]
    /\ pc' = [pc EXCEPT ![r] = "trace"]
    /\ UNCHANGED <<printed, program, inputs, num_outputs, trace, t, last_state, outputs,
                   program_hash, prove_calls, proof, result>>

\* lines 21-24
NewTrace(r) ==
    /\ pc[r] = "trace"
    /\ TraceOK(padded[r], inputs[r])
    /\ trace' = [trace EXCEPT ![r] =
                    TraceTableNew(padded[r], inputs[r], DEFAULT_EXTENSION_FACTOR)]
    /\ \E ms \in 0..MaxMillis :
          /\ t' = [t EXCEPT ![r] = ms]
          /\ printed' = [printed EXCEPT ![r] =
                Append(@, <<TraceLen(TraceTableNew(padded[r], inputs[r],
                                                   DEFAULT_EXTENSION_FACTOR)), ms>>)]
    /\ pc' = [pc EXCEPT ![r] = "last_state"]
    /\ UNCHANGED <<program, inputs, num_outputs, padded, trace_length,
                   last_state, outputs, program_hash, prove_calls, proof, result>>

\* line 22, input tape incompatible with the program: reported, no further step
NewTraceFail(r) ==
    /\ pc[r] = "trace"
    /\ ~TraceOK(padded[r], inputs[r])
    /\ pc' = [pc EXCEPT ![r] = "panic_input"]
    /\ DropLocals(r)
    /\ UNCHANGED <<printed, program, inputs, num_outputs, prove_calls, proof, result>>

\* faulty variant: reads step 0 instead of step len() - 1
GetLastStateFirst(r) ==
    /\ pc[r] = "last_state"
    /\ last_state' = [last_state EXCEPT ![r] = GetState(trace[r], 0)]
    /\ pc' = [pc EXCEPT ![r] = "outputs"]
    /\ UNCHANGED <<printed, program, inputs, num_outputs, padded, trace_length, trace, t,
                   outputs, program_hash, prove_calls, proof, result>>

\* line 27
GetLastState(r) ==
    /\ pc[r] = "last_state"
    /\ last_state' = [last_state EXCEPT ![r] =
                         GetState(trace[r], TraceLen(trace[r]) - 1)]
    /\ pc' = [pc EXCEPT ![r] = "outputs"]
    /\ UNCHANGED <<printed, program, inputs, num_outputs, padded, trace_length, trace, t,
                   outputs, program_hash, prove_calls, proof, result>>

\* faulty variant: the slice is clamped to the stack instead of failing
SliceOutputsClamped(r) ==
    /\ pc[r] = "outputs"
    /\ LET st == GetStack(last_state[r])
           n == IF num_outputs[r] <= Len(st) THEN num_outputs[r] ELSE Len(st)
       IN outputs' = [outputs EXCEPT ![r] = SubSeq(st, 1, n)]
    /\ pc' = [pc EXCEPT ![r] = "hash"]
    /\ UNCHANGED <<printed, program, inputs, num_outputs, padded, trace_length, trace, t,
                   last_state, program_hash, prove_calls, proof, result>>

\* faulty variant: the outputs are drained out of the trace table
SliceOutputsDrain(r) ==
    /\ pc[r] = "outputs"
    /\ num_outputs[r] <= Len(GetStack(last_state[r]))
    /\ outputs' = [outputs EXCEPT ![r] =
                      SubSeq(GetStack(last_state[r]), 1, num_outputs[r])]
    /\ trace' = [trace EXCEPT ![r].states[TraceLen(trace[r])].stack =
                    SubSeq(@, num_outputs[r] + 1, Len(@))]
    /\ pc' = [pc EXCEPT ![r] = "hash"]
    /\ UNCHANGED <<printed, program, inputs, num_outputs, padded, trace_length, t,
                   last_state, program_hash, prove_calls, proof, result>>

\* line 28, num_outputs within the stack
SliceOutputs(r) ==
    /\ pc[r] = "outputs"
    /\ num_outputs[r] <= Len(GetStack(last_state[r]))
    /\ outputs' = [outputs EXCEPT ![r] =
                      SubSeq(GetStack(last_state[r]), 1, num_outputs[r])]
    /\ pc' = [pc EXCEPT ![r] = "hash"]
    /\ UNCHANGED <<printed, program, inputs, num_outputs, padded, trace_length, trace, t,
                   last_state, program_hash, prove_calls, proof, result>>

\* line 28, slice range past the end of the stack: the slice index panics
SliceOutputsPanic(r) ==
    /\ pc[r] = "outputs"
    /\ num_outputs[r] > Len(GetStack(last_state[r]))
    /\ pc' = [pc EXCEPT ![r] = "panic_bounds"]
    /\ DropLocals(r)
    /\ UNCHANGED <<printed, program, inputs, num_outputs, prove_calls, proof, result>>

\* faulty variant: the hash is copied from the stack registers
CopyHashFromStack(r) ==
    /\ pc[r] = "hash"
    /\ program_hash' = [program_hash EXCEPT ![r] =
          SubSeq(GetStack(last_state[r]) \o GetOpAcc(last_state[r]), 1, HashWidth)]
    /\ pc' = [pc EXCEPT ![r] = "prove"]
    /\ UNCHANGED <<printed, program, inputs, num_outputs, padded, trace_length, trace, t,
                   last_state, outputs, prove_calls, proof, result>>

\* faulty variant: the prove call is skipped
CopyHashSkipProve(r) ==
    /\ pc[r] = "hash"
    /\ program_hash' = [program_hash EXCEPT ![r] =
                           SubSeq(GetOpAcc(last_state[r]), 1, HashWidth)]
    /\ pc' = [pc EXCEPT ![r] = "return"]
    /\ UNCHANGED <<printed, program, inputs, num_outputs, padded, trace_length, trace, t,
                   last_state, outputs, prove_calls, proof, result>>

\* lines 31-32
CopyHash(r) ==
    /\ pc[r] = "hash"
    /\ program_hash' = [program_hash EXCEPT ![r] =
                           SubSeq(GetOpAcc(last_state[r]), 1, HashWidth)]
    /\ pc' = [pc EXCEPT ![r] = "prove"]
    /\ UNCHANGED <<printed, program, inputs, num_outputs, padded, trace_length, trace, t,
                   last_state, outputs, prove_calls, proof, result>>

\* faulty variant: the elapsed time is handed to prove with the inputs
ProveTimed(r) ==
    /\ pc[r] = "prove"
    /\ prove_calls' = [prove_calls EXCEPT ![r] = @ + 1]
    /\ proof' = [proof EXCEPT ![r] =
                    <<ProofArtifact(trace[r], inputs[r] \o <<t[r]>>, outputs[r])>>]
    /\ pc' = [pc EXCEPT ![r] = "return"]
    /\ UNCHANGED <<printed, program, inputs, num_outputs, padded, trace_length, trace, t,
                   last_state, outputs, program_hash, result>>

\* line 35, prove completes
Prove(r) ==
    /\ pc[r] = "prove"
    /\ prove_calls' = [prove_calls EXCEPT ![r] = @ + 1]
    /\ proof' = [proof EXCEPT ![r] =
                    <<ProofArtifact(trace[r], inputs[r], outputs[r])>>]
    /\ pc' = [pc EXCEPT ![r] = "return"]
    /\ UNCHANGED <<printed, program, inputs, num_outputs, padded, trace_length, trace, t,
                   last_state, outputs, program_hash, result>>

\* line 35, prove aborts (fatal, no artifact); the constraint system is not
\* part of processor/mod.rs, so whether it aborts is left open
ProveAbort(r) ==
    /\ pc[r] = "prove"
    /\ prove_calls' = [prove_calls EXCEPT ![r] = @ + 1]
    /\ pc' = [pc EXCEPT ![r] = "aborted"]
    /\ DropLocals(r)
    /\ UNCHANGED <<printed, program, inputs, num_outputs, proof, result>>

\* line 37
Return(r) ==
    /\ pc[r] = "return"
    /\ result' = [result EXCEPT ![r] = <<program_hash[r], outputs[r]>>]
    /\ pc' = [pc EXCEPT ![r] = "done"]
    /\ DropLocals(r)
    /\ UNCHANGED <<printed, program, inputs, num_outputs, prove_calls, proof>>

Next ==
    \E r \in Runs :
        \/ Call(r)
        \/ Pad(r)
        \/ NewTrace(r)
        \/ NewTraceFail(r)
        \/ GetLastState(r)
        \/ SliceOutputs(r)
        \/ SliceOutputsPanic(r)
        \/ CopyHash(r)
        \/ Prove(r)
        \/ ProveAbort(r)
        \/ Return(r)

Spec == Init /\ [][Next]_vars

\* ---- properties ---------------------------------------------------------
Padded == {"trace", "last_state", "outputs", "hash", "prove", "return"}
Built == {"last_state", "outputs", "hash", "prove", "return"}

IsPowerOfTwo(n) == \E k \in 0..n : 2 ^ k = n

FinalState(r) == trace[r].states[Len(trace[r].states)]

RECURSIVE RunProgram(_, _)
RunProgram(s, ops) ==
    IF ops = <<>> THEN s ELSE RunProgram(Step(s, Head(ops)), Tail(ops))

\* C1: for every non-empty program the padded trace length is a power of
\* two, at least len(P), and exactly 2 * len(P) (so strictly greater) when
\* len(P) is itself a power of two.
C1_PaddingLaw ==
    \A r \in Runs :
        (pc[r] \in Padded /\ Len(program[r]) >= 1) =>
            /\ IsPowerOfTwo(trace_length[r])
            /\ trace_length[r] >= Len(program[r])
            /\ Len(padded[r]) = trace_length[r]
            /\ IsPowerOfTwo(Len(program[r])) =>
                  /\ trace_length[r] > Len(program[r])
                  /\ trace_length[r] = 2 * Len(program[r])

C1_Witness ==
    /\ pc[1] \in Padded
    /\ Len(program[1]) = 2
    /\ trace_length[1] = 4

\* C2: outputs are the first num_outputs stack elements of the state at the
\* final trace step, program_hash the first 4 op-accumulator elements of
\* that same state, and this pair is what execute returns.
C2_ResultsFromFinalState ==
    /\ [](\A r \in Runs :
            /\ pc[r] \in {"hash", "prove", "return"} =>
                  /\ outputs[r] = SubSeq(GetStack(FinalState(r)), 1, num_outputs[r])
                  /\ Len(outputs[r]) = num_outputs[r]
            /\ pc[r] \in {"prove", "return"} =>
                  /\ program_hash[r] = SubSeq(GetOpAcc(FinalState(r)), 1, 4)
                  /\ Len(program_hash[r]) = 4)
    /\ [][\A r \in Runs :
            (pc[r] = "return" /\ pc'[r] = "done") =>
                result'[r] = <<SubSeq(GetOpAcc(FinalState(r)), 1, 4),
                               SubSeq(GetStack(FinalState(r)), 1, num_outputs[r])>>]_vars

C2_Witness ==
    /\ pc[1] = "return"
    /\ num_outputs[1] = 2
    /\ Len(GetStack(FinalState(1))) > 2
    /\ FinalState(1) # trace[1].states[1]

\* C3: two successful runs of the same program with the same output count
\* return the same program hash, whatever their input tapes.
C3_HashIndependentOfInputs ==
    (/\ pc[1] = "done" /\ pc[2] = "done"
     /\ program[1] = program[2]
     /\ num_outputs[1] = num_outputs[2]) =>
        result[1][1] = result[2][1]

C3_Witness ==
    /\ pc[1] = "done" /\ pc[2] = "done"
    /\ program[1] = program[2]
    /\ inputs[1] # inputs[2]
    /\ result[1][2] # result[2][2]
    /\ result[1][1] = result[2][1]

\* C4: when num_outputs exceeds the populated stack of the final state, the
\* only way on from the slice is the bounds failure; prove is never called
\* and nothing is returned.
C4_OutOfBoundsFails ==
    /\ [][\A r \in Runs :
            (/\ pc[r] = "outputs"
             /\ num_outputs[r] > Len(GetStack(FinalState(r)))
             /\ pc'[r] # pc[r]) =>
                /\ pc'[r] = "panic_bounds"
                /\ prove_calls'[r] = 0
                /\ proof'[r] = <<>>
                /\ result'[r] = <<>>]_vars
    /\ [](\A r \in Runs :
            pc[r] = "panic_bounds" =>
                prove_calls[r] = 0 /\ proof[r] = <<>> /\ result[r] = <<>>)
    /\ [][\A r \in Runs : pc[r] = "panic_bounds" => pc'[r] = "panic_bounds"]_vars

C4_Witness ==
    /\ pc[1] = "panic_bounds"
    /\ num_outputs[1] = 2
    /\ program[1] = <<PUSH>>
    /\ inputs[1] = <<>>

\* C5: two completed runs on identical (program, inputs, num_outputs) give
\* the same program hash, outputs and proof artifact, whatever the elapsed
\* times measured in each.
C5_Deterministic ==
    (/\ pc[1] = "done" /\ pc[2] = "done"
     /\ program[1] = program[2]
     /\ inputs[1] = inputs[2]
     /\ num_outputs[1] = num_outputs[2]) =>
        /\ result[1] = result[2]
        /\ proof[1] = proof[2]

C5_Witness ==
    /\ pc[1] = "done" /\ pc[2] = "done"
    /\ program[1] = program[2]
    /\ inputs[1] = inputs[2]
    /\ num_outputs[1] = num_outputs[2]
    /\ printed[1] # printed[2]
    /\ result[1][2] # <<>>
    /\ result[1] = result[2]
    /\ proof[1] = proof[2]

\* C6 (as stated): a single-opcode program gives a 4-step trace whose steps
\* 1-3 are no-ops that leave the stack unchanged.
C6_FourStepTrace ==
    \A r \in Runs :
        (pc[r] \in Built /\ Len(program[r]) = 1) =>
            /\ TraceLen(trace[r]) = 4
            /\ \A i \in 2..4 : padded[r][i] = NOOP
            /\ \A i \in 2..3 :
                  GetStack(trace[r].states[i + 1]) = GetStack(trace[r].states[i])

\* C6 (amended): a single-opcode program [OP_A] gives a 2-step trace, the
\* padded program is [OP_A, NOOP], step 1 is the only padding step and the
\* final state's stack is the stack left by OP_A.
C6_TwoStepTrace ==
    \A r \in Runs :
        (pc[r] \in Built /\ Len(program[r]) = 1) =>
            /\ TraceLen(trace[r]) = 2
            /\ trace_length[r] = 2
            /\ padded[r] = <<program[r][1], NOOP>>
            /\ GetStack(FinalState(r)) =
                  GetStack(Step(InitialState(inputs[r]), program[r][1]))

C6_Witness ==
    /\ pc[1] \in Built
    /\ program[1] = <<PUSH>>
    /\ TraceLen(trace[1]) = 2
    /\ GetStack(FinalState(1)) # inputs[1]

C8_SingleShot ==
    /\ [](\A r \in Runs :
            /\ prove_calls[r] <= 1
            /\ prove_calls[r] = 1 => pc[r] \in {"return", "done", "aborted"}
            /\ pc[r] = "aborted" => result[r] = <<>> /\ proof[r] = <<>>
            /\ result[r] # <<>> =>
                  pc[r] = "done" /\ prove_calls[r] = 1 /\ proof[r] # <<>>
            /\ pc[r] = "done" => result[r] # <<>>)
    /\ [][\A r \in Runs :
            /\ prove_calls'[r] # prove_calls[r] =>
                  /\ pc[r] = "prove"
                  /\ padded[r] # <<>>
                  /\ trace[r] # NoTrace
                  /\ Len(outputs[r]) = num_outputs[r]
                  /\ Len(program_hash[r]) = 4
            /\ result'[r] # result[r] =>
                  result[r] = <<>> /\ prove_calls[r] = 1 /\ proof[r] # <<>>
            /\ pc[r] \in Terminal => pc'[r] = pc[r]]_vars

C8_Witness ==
    /\ pc[1] = "aborted" /\ prove_calls[1] = 1 /\ result[1] = <<>>
    /\ pc[2] = "done" /\ prove_calls[2] = 1 /\ result[2] # <<>>

\* C9: state[0] holds the declared inputs, state[i+1] = step(state[i],
\* program[i]) over the padded program, padding no-ops leave the state
\* unchanged, and the final state (from which outputs and hash are read) is
\* the state right after the last opcode of the unpadded program.
C9_TraceInvariant ==
    \A r \in Runs :
        pc[r] \in Built =>
            LET st == trace[r].states
                n == Len(program[r])
            IN /\ Len(st) = Len(padded[r])
               /\ n + 1 <= Len(st)
               /\ GetStack(st[1]) = inputs[r]
               /\ \A i \in 1..(Len(st) - 1) : st[i + 1] = Step(st[i], padded[r][i])
               /\ \A i \in (n + 1)..(Len(st) - 1) : st[i + 1] = st[i]
               /\ st[Len(st)] = st[n + 1]
               /\ st[Len(st)] = RunProgram(InitialState(inputs[r]), program[r])
               /\ pc[r] \in {"outputs", "hash", "prove", "return"} =>
                     last_state[r] = st[n + 1]

C9_Witness ==
    /\ pc[1] = "outputs"
    /\ Len(program[1]) = 2
    /\ program[1][2] # NOOP
    /\ TraceLen(trace[1]) = 4
    /\ last_state[1] # trace[1].states[2]

\* C10: the padded program keeps P as its first len(P) entries, is NOOP from
\* len(P) to L-1, has at least one padding position (so it ends in NOOP),
\* and is [NOOP] for the empty program.
C10_PaddedProgram ==
    \A r \in Runs :
        pc[r] \in Padded =>
            LET P == program[r]
                Q == padded[r]
            IN /\ Len(Q) = trace_length[r]
               /\ Len(Q) > Len(P)
               /\ SubSeq(Q, 1, Len(P)) = P
               /\ \A i \in (Len(P) + 1)..Len(Q) : Q[i] = NOOP
               /\ Q[Len(Q)] = NOOP
               /\ P = <<>> => Q = <<NOOP>>

C10_Witness ==
    /\ pc[1] = "trace"
    /\ Len(program[1]) = 3
    /\ program[1][3] # NOOP
    /\ padded[1][4] = NOOP
    /\ pc[2] = "idle"
====
